---- MODULE Spec2Model ----
(***************************************************************************)
(* A model of neural/neural_trainer.py: the trading simulation             *)
(* (simulateTrading) and the training / evaluation pipeline (init, run).   *)
(***************************************************************************)
EXTENDS Integers, Sequences, FiniteSets, TLC

(***************************************************************************)
(* Bounds of the model.                                                    *)
(***************************************************************************)
\* Longest prediction / actual series given to simulateTrading.
MaxLen == 4

\* The prices the actual series is drawn from: a negative one, zero and two
\* positive ones.
Prices == {-5, 0, 5, 10}

\* The forecasts the prediction series is drawn from: for a negative, a zero
\* and a positive price there is a forecast above it and one not above it.
Forecasts == {-5, 5, 10}

\* The start balances simulateTrading is called with.
StartBalances == {100}

\* Most samples in a split of the dataset file.
MaxSamples == 3

\* The dates of the samples: two, so that samples share a date and splits
\* come in and out of date order.
Dates == {1, 2}

\* The values of batch in --args: absent is the empty dictionary.
Batches == {0, 2, 3}

(***************************************************************************)
(* Python values.                                                          *)
(***************************************************************************)
\* Python's None and a value that is not None.
None == <<>>
Some(x) == <<x>>

(***************************************************************************)
(* Exact arithmetic for the balance: a number is num / den, den > 0, in    *)
(* lowest terms.  With the prices above every balance the code computes    *)
(* is a dyadic multiple of an integer, so the float the code holds is the  *)
(* same number.                                                            *)
(***************************************************************************)
Abs(x) == IF x < 0 THEN -x ELSE x

RECURSIVE GCD(_, _)
GCD(a, b) == IF b = 0 THEN a ELSE GCD(b, a % b)

Norm(n, d) ==
    LET s == IF d < 0 THEN -1 ELSE 1
        g == GCD(Abs(n), Abs(d))
    IN  [num |-> (s * n) \div g, den |-> (s * d) \div g]

Num(k) == [num |-> k, den |-> 1]

\* balance /= curr, for curr # 0 (line 146).
TrueDiv(b, c) == Norm(b.num, b.den * c)

\* balance *= curr (lines 151, 155).
Mul(b, c) == Norm(b.num * c, b.den)

IsNegative(b) == b.num < 0

(***************************************************************************)
(* Strings the code transforms are sequences of characters.                *)
(***************************************************************************)
UpperCase == <<"A", "B", "C", "D", "E", "F", "G", "H", "I", "J", "K", "L", "M",
               "N", "O", "P", "Q", "R", "S", "T", "U", "V", "W", "X", "Y", "Z">>
LowerCase == <<"a", "b", "c", "d", "e", "f", "g", "h", "i", "j", "k", "l", "m",
               "n", "o", "p", "q", "r", "s", "t", "u", "v", "w", "x", "y", "z">>

\* str.lower(), character by character.
LowerChar(c) ==
    IF \E k \in DOMAIN UpperCase : UpperCase[k] = c
    THEN LowerCase[CHOOSE k \in DOMAIN UpperCase : UpperCase[k] = c]
    ELSE c
Lower(str) == [k \in DOMAIN str |-> LowerChar(str[k])]

\* str.split(','): the pieces between the commas, empty ones included.
RECURSIVE Split(_)
Split(str) ==
    IF \A k \in DOMAIN str : str[k] # ","
    THEN <<str>>
    ELSE LET k == CHOOSE n \in DOMAIN str :
                      str[n] = "," /\ \A j \in 1..(n - 1) : str[j] # ","
         IN  <<SubSeq(str, 1, k - 1)>> \o Split(SubSeq(str, k + 1, Len(str)))

\* The truth value of an optional string: None and '' are false.
Truthy(opt) == opt # None /\ opt[1] # <<>>

(***************************************************************************)
(* Files.                                                                  *)
(***************************************************************************)
\* Lines 24-25.
modelExtension == ".h5"
historyExtension == ".pickle"

\* What a file holds: nothing (it does not exist), an artifact of an earlier
\* process (by = 0), or what this process wrote for the model by, whole or
\* only in part.
Absent == [exists |-> FALSE, by |-> 0, whole |-> TRUE]
Prior == [exists |-> TRUE, by |-> 0, whole |-> TRUE]
Written(m, w) == [exists |-> TRUE, by |-> m, whole |-> w]

(***************************************************************************)
(* State.                                                                  *)
(***************************************************************************)
VARIABLES
    \* simulateTrading: its arguments
    prediction, actual, startBalance,
    \* simulateTrading: its locals
    balance, crypto, lastPriceBoughtCrypto, timesTraded, i,
    \* simulateTrading: where the call is: "idle" (not called), "loop",
    \* "liquidate" (line 154), "returned", "raised"
    tpc,
    \* the exception that ended the call, or None
    raised,
    \* the indices (Python's) of prediction and of actual read so far
    predRead, actualRead

VARIABLES
    \* init: the parsed command line (args.noReplace, args.saveModel,
    \* args.loadModel, args.train, args.models)
    noReplace, saveModel, loadModel, train, argsModels,
    \* the files <saveModel>.h5 and <saveModel>.pickle, by extension
    fs,
    \* run: its argument models and its locals selectedModels and history
    models, selectedModels, history,
    \* run: the position in the loop over selectedModels, and the split
    \* (setType) of the prediction loop
    mi, setType,
    \* where the process is: "idle" (not started), "main" (init, line 230),
    \* "run" (run entered), the positions of run's two loops, "done"
    \* (returned: exit status 0), "raised" (ended by an uncaught exception:
    \* exit status 1), "killed" (interrupted from outside)
    pc,
    \* the calls made on the models and the report, and the exception that
    \* ended the process, in order
    log

VARIABLES
    \* init: args.shuffle, args.trim and the dictionary parsed from --args
    shuffle, trim, modelArgs,
    \* the content of the dataset file: the records of warm, train, test
    rawDataset,
    \* run: its dictionaries dataset, labels, dates, normalization, by kind
    dataset, labels, dates, normalization,
    \* run: the split the loop of line 51 is at (its i, plus 1)
    ki,
    \* the permutation randomizeDataset drew, or None
    permutation,
    \* run: the lists predictions, actuals, datesList of the current model
    predictions, actuals, datesList

tradingVars == <<prediction, actual, startBalance, balance, crypto,
                 lastPriceBoughtCrypto, timesTraded, i, tpc, raised,
                 predRead, actualRead>>

dataVars == <<shuffle, trim, modelArgs, rawDataset, dataset, labels, dates,
              normalization, ki, permutation>>

seriesVars == <<predictions, actuals, datesList>>

runVars == <<noReplace, saveModel, loadModel, train, argsModels, fs, models,
             selectedModels, history, mi, setType, pc, log, dataVars,
             seriesVars>>

vars == <<tradingVars, runVars>>

(***************************************************************************)
(* simulateTrading(prediction, actual, startBalance)                       *)
(***************************************************************************)
SeqsUpTo(S, n) == UNION {[1..k -> S] : k \in 0..n}
Min(a, b) == IF a <= b THEN a ELSE b

\* No process runs: the state of init and run while simulateTrading is
\* looked at on its own.
RunIdle ==
    /\ noReplace = FALSE /\ saveModel = None /\ loadModel = None
    /\ train = TRUE /\ argsModels = None
    /\ fs = [e \in {modelExtension, historyExtension} |-> Absent]
    /\ models = None /\ selectedModels = <<>> /\ history = {}
    /\ mi = 0 /\ setType = "train"
    /\ pc = "idle" /\ log = <<>>
    /\ shuffle = FALSE /\ trim = FALSE /\ modelArgs = <<>>
    /\ rawDataset = <<>>
    /\ dataset = <<>> /\ labels = <<>> /\ dates = <<>> /\ normalization = <<>>
    /\ ki = 1 /\ permutation = None
    /\ predictions = <<>> /\ actuals = <<>> /\ datesList = <<>>

\* The state after lines 131-137.
InitTrading ==
    /\ prediction \in SeqsUpTo(Forecasts, MaxLen)
    /\ actual \in SeqsUpTo(Prices, MaxLen)
    /\ startBalance \in StartBalances
    /\ balance = Num(startBalance)
    /\ crypto = FALSE
    /\ lastPriceBoughtCrypto = 1
    /\ timesTraded = 0
    /\ i = 0
    /\ tpc = "loop"
    /\ raised = None
    /\ predRead = {} /\ actualRead = {}
    /\ RunIdle

\* Python's index i of a list is index i + 1 of a sequence.
At(s, k) == s[k + 1]

\* Line 139 yields an element and line 140 does not break.
InLoop == i < Len(actual) /\ ~(i >= Len(prediction) - 1)

\* Line 142: the index of prediction that step i reads.
PredIndexSame == i
PredIndex == i + 1

\* Line 139: curr.  Line 142: pred.
Curr == At(actual, i)
Pred == At(prediction, PredIndex)

\* Lines 139 and 142 have read actual[i] and prediction[i+1].
StepReads ==
    /\ actualRead' = actualRead \cup {i}
    /\ predRead' = predRead \cup {PredIndex}

\* Line 144: the condition of the buy branch.
BuySignalWhileHolding(c, p) == p > c
BuySignal(c, p) == ~crypto /\ p > c

\* Line 149: the condition of the sell branch.
SellSignalFalling(c, p) == crypto /\ c > p
SellSignal(c, p) == crypto /\ c < p

\* Lines 144-148 with curr # 0.
StepBuy ==
    /\ tpc = "loop" /\ InLoop
    /\ StepReads
    /\ BuySignal(Curr, Pred)
    /\ Curr # 0
    /\ crypto' = TRUE
    /\ balance' = TrueDiv(balance, Curr)
    /\ lastPriceBoughtCrypto' = Curr
    /\ timesTraded' = timesTraded + 1
    /\ i' = i + 1
    /\ UNCHANGED <<prediction, actual, startBalance, tpc, raised>>
    /\ UNCHANGED runVars

\* Lines 144-146 with curr = 0: line 145 has run when the division of line
\* 146 raises ZeroDivisionError, which leaves the function (the series are
\* Python lists of Python numbers).
StepBuyZero ==
    /\ tpc = "loop" /\ InLoop
    /\ StepReads
    /\ BuySignal(Curr, Pred)
    /\ Curr = 0
    /\ crypto' = TRUE
    /\ tpc' = "raised"
    /\ raised' = Some("ZeroDivisionError")
    /\ UNCHANGED <<prediction, actual, startBalance, balance,
                   lastPriceBoughtCrypto, timesTraded, i>>
    /\ UNCHANGED runVars

\* Lines 149-152.
StepSell ==
    /\ tpc = "loop" /\ InLoop
    /\ StepReads
    /\ ~BuySignal(Curr, Pred)
    /\ SellSignal(Curr, Pred)
    /\ crypto' = FALSE
    /\ balance' = Mul(balance, Curr)
    /\ timesTraded' = timesTraded + 1
    /\ i' = i + 1
    /\ UNCHANGED <<prediction, actual, startBalance, lastPriceBoughtCrypto,
                   tpc, raised>>
    /\ UNCHANGED runVars

\* Neither branch is taken.
StepHold ==
    /\ tpc = "loop" /\ InLoop
    /\ StepReads
    /\ ~BuySignal(Curr, Pred)
    /\ ~SellSignal(Curr, Pred)
    /\ i' = i + 1
    /\ UNCHANGED <<prediction, actual, startBalance, balance, crypto,
                   lastPriceBoughtCrypto, timesTraded, tpc, raised>>
    /\ UNCHANGED runVars

\* Line 139 is exhausted, or it yields actual[i] and line 140 breaks.
LoopExit ==
    /\ tpc = "loop" /\ ~InLoop
    /\ tpc' = "liquidate"
    /\ actualRead' = IF i < Len(actual) THEN actualRead \cup {i} ELSE actualRead
    /\ UNCHANGED predRead
    /\ UNCHANGED <<prediction, actual, startBalance, balance, crypto,
                   lastPriceBoughtCrypto, timesTraded, i, raised>>
    /\ UNCHANGED runVars

\* Line 155: the price the open position is converted back at.
LiquidationMarket == IF actual = <<>> THEN 1 ELSE actual[Len(actual)]
LiquidationPrice == lastPriceBoughtCrypto

\* Lines 154-158.
Liquidate ==
    /\ tpc = "liquidate"
    /\ balance' = IF crypto THEN Mul(balance, LiquidationPrice) ELSE balance
    /\ crypto' = FALSE
    /\ tpc' = "returned"
    /\ UNCHANGED <<prediction, actual, startBalance, lastPriceBoughtCrypto,
                   timesTraded, i, raised, predRead, actualRead>>
    /\ UNCHANGED runVars

NextTrading ==
    \/ StepBuy
    \/ StepBuyZero
    \/ StepSell
    \/ StepHold
    \/ LoopExit
    \/ Liquidate

SpecTrading == InitTrading /\ [][NextTrading]_vars

(***************************************************************************)
(* The registry of models (line 22) and the command lines looked at.       *)
(***************************************************************************)
\* globalModels, by position: Conv2DNetwork(), Conv3DNetwork(),
\* BasicLSTMNetwork().
globalModels == <<1, 2, 3>>

\* model.name of each network.
Name(m) ==
    CASE m = 1 -> <<"C", "o", "n", "v", "2", "D">>
      [] m = 2 -> <<"C", "o", "n", "v", "3", "D">>
      [] m = 3 -> <<"L", "S", "T", "M">>

\* Values of --models: absent, empty, and lists of names in several cases
\* and orders, with and without names of no model.
ReqLstmConv2d == <<"L", "S", "T", "M", ",", "c", "o", "n", "v", "2", "d">>
ReqConv3dUpper == <<"C", "O", "N", "V", "3", "D">>
ReqExactConv2D == <<"C", "o", "n", "v", "2", "D">>
ReqUnknownLstm == <<"g", "r", "u", ",", "l", "s", "t", "m">>
ReqUnknown == <<"g", "r", "u">>
ReqAllReversed == <<"l", "s", "t", "m", ",", "c", "o", "n", "v", "3", "d", ",",
                    "C", "o", "n", "v", "2", "d">>
Requests == {None, Some(<<>>), Some(ReqLstmConv2d), Some(ReqConv3dUpper),
             Some(ReqExactConv2D), Some(ReqUnknownLstm), Some(ReqUnknown),
             Some(ReqAllReversed)}

\* Values of --saveModel and --loadModel.
SavePaths == {None, Some(<<"n", "e", "t">>)}
LoadPaths == {None, Some(<<"w", ".", "h", "5">>)}

(***************************************************************************)
(* The dataset file and numpy's arrays                                     *)
(***************************************************************************)
\* Lines 51 and 108: the kinds of split, in the order of the file.
Kinds == <<"warm", "train", "test">>

\* The normalization of each split of the file: scale and offset.
WarmNorm == [scale |-> 1, offset |-> 0]
TrainNorm == [scale |-> 2, offset |-> 1]
TestNorm == [scale |-> 3, offset |-> 0]

\* A record of the file with nf samples, nl labels and the dates d: sample
\* k is k, its label is 10 + k.
RawSplit(nf, nl, d, norm) ==
    [dataset |-> [k \in 1..nf |-> k], labels |-> [k \in 1..nl |-> 10 + k],
     dates |-> d, normalization |-> norm]

\* Records whose three arrays have one length, with every sequence of dates.
WellFormedSplits(norm) ==
    UNION {{RawSplit(n, n, d, norm) : d \in [1..n -> Dates]} :
           n \in 0..MaxSamples}

\* Records whose arrays differ in length.
UnequalShapes ==
    {sh \in [1..3 -> (MaxSamples - 1)..MaxSamples] :
         ~(sh[1] = sh[2] /\ sh[2] = sh[3])}
MalformedSplits(norm) ==
    UNION {{RawSplit(sh[1], sh[2], d, norm) : d \in [1..sh[3] -> Dates]} :
           sh \in UnequalShapes}

\* Records in date order with distinct dates.
OrderedSplit(n, norm) == RawSplit(n, n, [k \in 1..n |-> k], norm)
DefaultSplit(norm) == OrderedSplit(2, norm)
DefaultDataset ==
    <<DefaultSplit(WarmNorm), DefaultSplit(TrainNorm), DefaultSplit(TestNorm)>>

\* The dataset files: any train split between two ordered ones, and any
\* well-formed test split after warm splits of two lengths.
Datasets ==
    {<<DefaultSplit(WarmNorm), t, DefaultSplit(TestNorm)>> :
         t \in WellFormedSplits(TrainNorm) \cup MalformedSplits(TrainNorm)}
    \cup
    {<<OrderedSplit(n, WarmNorm), DefaultSplit(TrainNorm), x>> :
         n \in {1, MaxSamples}, x \in WellFormedSplits(TestNorm)}

\* The dictionaries --args gives for batch.
ModelArgs == {<<>>} \cup {[batch |-> b] : b \in Batches}

\* a[:n] of an array, n >= 0.
Take(a, n) == SubSeq(a, 1, Min(n, Len(a)))

\* d[kind] = v of a dictionary.
Extend(d, kind, v) ==
    [x \in DOMAIN d \cup {kind} |-> IF x = kind THEN v ELSE d[x]]

\* np.random.permutation(n): the permutations of 0..n-1, here of 1..n.
IndexPermutations(n) ==
    {p \in [1..n -> 1..n] : \A a, b \in 1..n : a # b => p[a] # p[b]}

\* a[p] with an index array p: IndexError when an index is out of bounds.
InRange(a, p) == \A k \in DOMAIN p : p[k] <= Len(a)
Reindex(a, p) == [k \in 1..Len(p) |-> a[p[k]]]

\* d.argsort(): an index array that puts d in ascending order; the default
\* kind of sort does not say which of the equal elements comes first.
ArgSort(d) ==
    {p \in IndexPermutations(Len(d)) :
         \A a, b \in 1..Len(d) : a < b => d[p[a]] <= d[p[b]]}

\* model.predict(x): one output per sample, a function of the model and
\* the sample.
PredictOut(m, x) == [k \in 1..Len(x) |-> 100 * m + x[k]]

\* NeuralNetwork.reverse_target_normalization(values, normalization).
Reverse(v, norm) == [k \in 1..Len(v) |-> norm.scale * v[k] + norm.offset]

(***************************************************************************)
(* init() and run()                                                        *)
(***************************************************************************)
\* simulateTrading is not called.
TradingIdle ==
    /\ prediction = <<>> /\ actual = <<>> /\ startBalance = 0
    /\ balance = Num(0) /\ crypto = FALSE /\ lastPriceBoughtCrypto = 1
    /\ timesTraded = 0 /\ i = 0 /\ tpc = "idle" /\ raised = None
    /\ predRead = {} /\ actualRead = {}

\* The locals of run before run is entered.
RunStart ==
    /\ models = None /\ selectedModels = <<>> /\ history = {}
    /\ mi = 0 /\ setType = "train"
    /\ pc = "main" /\ log = <<>>
    /\ dataset = <<>> /\ labels = <<>> /\ dates = <<>> /\ normalization = <<>>
    /\ ki = 1 /\ permutation = None
    /\ predictions = <<>> /\ actuals = <<>> /\ datesList = <<>>

\* The state after line 228: the arguments are parsed, the files of the
\* save target are there or not; the dataset file is a well-formed one and
\* neither --shuffle nor --trim-batch is given.
InitRun ==
    /\ noReplace \in BOOLEAN
    /\ saveModel \in SavePaths
    /\ loadModel \in LoadPaths
    /\ train \in BOOLEAN
    /\ argsModels \in Requests
    /\ fs \in [{modelExtension, historyExtension} -> {Absent, Prior}]
    /\ shuffle = FALSE /\ trim = FALSE /\ modelArgs = <<>>
    /\ rawDataset = DefaultDataset
    /\ RunStart
    /\ TradingIdle

\* The dataset part of init and run with one command line: two models are
\* requested and trained, nothing is saved or loaded.
InitData ==
    /\ noReplace = FALSE /\ saveModel = None /\ loadModel = None
    /\ train = TRUE /\ argsModels = Some(ReqLstmConv2d)
    /\ fs = [e \in {modelExtension, historyExtension} |-> Absent]
    /\ shuffle \in BOOLEAN
    /\ trim \in BOOLEAN
    /\ modelArgs \in ModelArgs
    /\ ~trim => modelArgs \in {<<>>, [batch |-> 2]}
    /\ rawDataset \in Datasets
    /\ RunStart
    /\ TradingIdle

\* The calls the log records.
Call(op, m, arg) == [op |-> op, m |-> m, arg |-> arg]

\* Line 231: os.path.exists(args.saveModel+modelExtension).
SaveTargetExistsHistory == fs[historyExtension].exists
SaveTargetExists == fs[modelExtension].exists

\* Lines 230-233: the early return of --no-replace.
InitNoReplace ==
    /\ pc = "main"
    /\ noReplace /\ saveModel # None
    /\ SaveTargetExists
    /\ pc' = "done"
    /\ UNCHANGED <<noReplace, saveModel, loadModel, train, argsModels, fs,
                   models, selectedModels, history, mi, setType, log>>
    /\ UNCHANGED <<tradingVars, dataVars, seriesVars>>

\* Line 235: givenModels.
GivenModels ==
    IF Truthy(argsModels)
    THEN Some([k \in DOMAIN Split(argsModels[1]) |->
                   Lower(Split(argsModels[1])[k])])
    ELSE None

\* Lines 230-254 when init does not return early: run is called with
\* models = givenModels.
InitCallRun ==
    /\ pc = "main"
    /\ ~(noReplace /\ saveModel # None /\ SaveTargetExists)
    /\ models' = GivenModels
    /\ pc' = "run"
    /\ UNCHANGED <<noReplace, saveModel, loadModel, train, argsModels, fs,
                   selectedModels, history, mi, setType, log>>
    /\ UNCHANGED <<tradingVars, dataVars, seriesVars>>

\* The frame of the steps of lines 51-72: the command line, the files, the
\* models and the output lists are left alone.
DataFrame ==
    /\ UNCHANGED <<noReplace, saveModel, loadModel, train, argsModels, fs,
                   models, selectedModels, history, mi, setType>>
    /\ UNCHANGED <<shuffle, trim, modelArgs, rawDataset>>
    /\ UNCHANGED seriesVars
    /\ UNCHANGED tradingVars

\* Line 57: the target length of a split of length L with batch size B.
TargetLenRemainder(L, B) == L % B
TargetLen(L, B) == L - (L % B)

\* Line 57 raises: modelArgs has no key batch, or batch is 0.
TrimKeyError == trim /\ "batch" \notin DOMAIN modelArgs
TrimZeroDivision ==
    trim /\ "batch" \in DOMAIN modelArgs /\ modelArgs.batch = 0

\* Lines 52-57: targetLen of the split the loop is at.
SplitTargetLen ==
    IF trim
    THEN TargetLen(Len(rawDataset[ki].dataset), modelArgs.batch)
    ELSE Len(rawDataset[ki].dataset)

\* Lines 51-65, one split: the first targetLen elements of each array.
Partition ==
    /\ pc = "run"
    /\ ki <= Len(Kinds)
    /\ ~TrimKeyError /\ ~TrimZeroDivision
    /\ dataset' = Extend(dataset, Kinds[ki],
                         Take(rawDataset[ki].dataset, SplitTargetLen))
    /\ labels' = Extend(labels, Kinds[ki],
                        Take(rawDataset[ki].labels, SplitTargetLen))
    /\ dates' = Extend(dates, Kinds[ki],
                       Take(rawDataset[ki].dates, SplitTargetLen))
    /\ normalization' = Extend(normalization, Kinds[ki],
                               rawDataset[ki].normalization)
    /\ ki' = ki + 1
    /\ pc' = IF ki = Len(Kinds) THEN "shuffle" ELSE "run"
    /\ UNCHANGED <<permutation, log>>
    /\ DataFrame

\* Line 57: modelArgs['batch'] raises KeyError; nothing catches it.
PartitionKeyError ==
    /\ pc = "run"
    /\ ki <= Len(Kinds)
    /\ TrimKeyError
    /\ log' = Append(log, Call("raise", 0, "KeyError"))
    /\ pc' = "raised"
    /\ UNCHANGED <<dataset, labels, dates, normalization, ki, permutation>>
    /\ DataFrame

\* Line 57: targetLen % 0 raises ZeroDivisionError; nothing catches it.
PartitionZeroDivision ==
    /\ pc = "run"
    /\ ki <= Len(Kinds)
    /\ TrimZeroDivision
    /\ log' = Append(log, Call("raise", 0, "ZeroDivisionError"))
    /\ pc' = "raised"
    /\ UNCHANGED <<dataset, labels, dates, normalization, ki, permutation>>
    /\ DataFrame

\* Line 70: whether the train split is shuffled.
ShuffleAlways == TRUE
ShuffleEnabled == shuffle

\* Lines 34-36: the three arrays indexed by the permutation.
ShuffledDataset(a, p) == Reindex(a, p)
ShuffledLabels(a, p) == Reindex(a, p)
ShuffledDatesKept(a, p) == Take(a, Len(p))
ShuffledDates(a, p) == Reindex(a, p)

\* Lines 33-36 index each array within its bounds.
ShuffleInRange(p) ==
    /\ InRange(dataset["train"], p)
    /\ InRange(labels["train"], p)
    /\ InRange(dates["train"], p)

\* Lines 70-72 and 32-37: a permutation of the indices of labels reorders
\* the train split.
Shuffle ==
    /\ pc = "shuffle"
    /\ ShuffleEnabled
    /\ \E p \in IndexPermutations(Len(labels["train"])) :
           /\ ShuffleInRange(p)
           /\ permutation' = Some(p)
           /\ dataset' = [dataset EXCEPT
                              !["train"] = ShuffledDataset(@, p)]
           /\ labels' = [labels EXCEPT !["train"] = ShuffledLabels(@, p)]
           /\ dates' = [dates EXCEPT !["train"] = ShuffledDates(@, p)]
    /\ pc' = "select"
    /\ UNCHANGED <<normalization, ki, log>>
    /\ DataFrame

\* Lines 33-36: the permutation is drawn and one of its indices is out of
\* the bounds of an array: IndexError, which nothing catches; line 72
\* assigns nothing.
ShuffleIndexError ==
    /\ pc = "shuffle"
    /\ ShuffleEnabled
    /\ \E p \in IndexPermutations(Len(labels["train"])) :
           /\ ~ShuffleInRange(p)
           /\ permutation' = Some(p)
    /\ log' = Append(log, Call("raise", 0, "IndexError"))
    /\ pc' = "raised"
    /\ UNCHANGED <<dataset, labels, dates, normalization, ki>>
    /\ DataFrame

\* Line 70 with shuffle false.
NoShuffle ==
    /\ pc = "shuffle"
    /\ ~ShuffleEnabled
    /\ pc' = "select"
    /\ UNCHANGED <<dataset, labels, dates, normalization, ki, permutation,
                   log>>
    /\ DataFrame

\* Lines 74-78: the models of the registry whose lowered name is in the
\* request, in the order of the registry; all of them without a request.
IsIn(x, list) == \E k \in DOMAIN list : list[k] = x
RECURSIVE InRequestOrder(_, _)
InRequestOrder(reg, req) ==
    IF req = None THEN reg
    ELSE IF req[1] = <<>> THEN <<>>
    ELSE SelectSeq(reg, LAMBDA m : Lower(Name(m)) = Head(req[1]))
         \o InRequestOrder(reg, Some(Tail(req[1])))
Select(reg, req) ==
    IF req # None
    THEN SelectSeq(reg, LAMBDA m : IsIn(Lower(Name(m)), req[1]))
    ELSE reg

\* Lines 74-81, up to the head of the first loop.
SelectModels ==
    /\ pc = "select"
    /\ selectedModels' = Select(globalModels, models)
    /\ mi' = 1
    /\ pc' = "t_head"
    /\ UNCHANGED <<noReplace, saveModel, loadModel, train, argsModels, fs,
                   models, history, setType, log>>
    /\ UNCHANGED <<tradingVars, dataVars, seriesVars>>

\* The model of the current iteration of a loop over selectedModels.
Model == selectedModels[mi]

\* Line 83: the next model of the first loop, or line 108, the head of the
\* second loop.
TrainLoopHead ==
    /\ pc = "t_head"
    /\ IF mi <= Len(selectedModels)
       THEN pc' = "t_load" /\ mi' = mi
       ELSE pc' = "p_head" /\ mi' = 1
    /\ UNCHANGED <<noReplace, saveModel, loadModel, train, argsModels, fs,
                   models, selectedModels, history, setType, log>>
    /\ UNCHANGED <<tradingVars, dataVars, seriesVars>>

\* Line 84: whether the model is loaded.
LoadEnabledUnlessTraining == Truthy(loadModel) /\ ~train
LoadEnabled == Truthy(loadModel)

\* Lines 84-85.
LoadStep ==
    /\ pc = "t_load"
    /\ log' = IF LoadEnabled
              THEN Append(log, Call("load", Model, "loadModel"))
              ELSE log
    /\ pc' = "t_train"
    /\ UNCHANGED <<noReplace, saveModel, loadModel, train, argsModels, fs,
                   models, selectedModels, history, mi, setType>>
    /\ UNCHANGED <<tradingVars, dataVars, seriesVars>>

\* Line 91, inside the block of line 86: where the body of the loop goes
\* after line 86 when training is disabled, and after training.
AfterNoTrainSaving == IF saveModel # None THEN "t_save" ELSE "t_head"
AfterNoTrain == "t_head"
AfterTrainKeepFirst ==
    IF saveModel # None /\ fs[modelExtension].by = 0 THEN "t_save" ELSE "t_head"
AfterTrain == IF saveModel # None THEN "t_save" ELSE "t_head"

\* Line 86 with train false: the body of the loop ends.
TrainSkip ==
    /\ pc = "t_train"
    /\ ~train
    /\ pc' = AfterNoTrain
    /\ mi' = IF pc' = "t_head" THEN mi + 1 ELSE mi
    /\ UNCHANGED <<noReplace, saveModel, loadModel, train, argsModels, fs,
                   models, selectedModels, history, setType, log>>
    /\ UNCHANGED <<tradingVars, dataVars, seriesVars>>

\* Lines 86-91: model.train returns the history.
TrainOk ==
    /\ pc = "t_train"
    /\ train
    /\ history' = history \cup {Model}
    /\ log' = Append(log, Call("train", Model, "ok"))
    /\ pc' = AfterTrain
    /\ mi' = IF pc' = "t_head" THEN mi + 1 ELSE mi
    /\ UNCHANGED <<noReplace, saveModel, loadModel, train, argsModels, fs,
                   models, selectedModels, setType>>
    /\ UNCHANGED <<tradingVars, dataVars, seriesVars>>

\* Line 87: where the process goes when model.train raises: nothing in run
\* or init catches the exception.
AfterTrainFailure == "raised"

\* Line 87: model.train raises.
TrainFail ==
    /\ pc = "t_train"
    /\ train
    /\ log' = Append(log, Call("train", Model, "raised"))
    /\ pc' = AfterTrainFailure
    /\ mi' = IF pc' = "t_head" THEN mi + 1 ELSE mi
    /\ UNCHANGED <<noReplace, saveModel, loadModel, train, argsModels, fs,
                   models, selectedModels, history, setType>>
    /\ UNCHANGED <<tradingVars, dataVars, seriesVars>>

\* Line 92: model.save(saveModel+modelExtension) writes the model file.
SaveModel ==
    /\ pc = "t_save"
    /\ fs' = [fs EXCEPT ![modelExtension] = Written(Model, TRUE)]
    /\ log' = Append(log, Call("save", Model, modelExtension))
    /\ pc' = "t_open"
    /\ UNCHANGED <<noReplace, saveModel, loadModel, train, argsModels, models,
                   selectedModels, history, mi, setType>>
    /\ UNCHANGED <<tradingVars, dataVars, seriesVars>>

\* Line 93: open(saveModel+historyExtension, 'wb') creates the file, or
\* truncates the one that is there.
OpenHistory ==
    /\ pc = "t_open"
    /\ fs' = [fs EXCEPT ![historyExtension] = Written(Model, FALSE)]
    /\ pc' = "t_dump"
    /\ UNCHANGED <<noReplace, saveModel, loadModel, train, argsModels, models,
                   selectedModels, history, mi, setType, log>>
    /\ UNCHANGED <<tradingVars, dataVars, seriesVars>>

\* Lines 94-100: the record is written and the file closed.
DumpHistory ==
    /\ pc = "t_dump"
    /\ fs' = [fs EXCEPT ![historyExtension] = Written(Model, TRUE)]
    /\ log' = Append(log, Call("save", Model, historyExtension))
    /\ pc' = "t_head"
    /\ mi' = mi + 1
    /\ UNCHANGED <<noReplace, saveModel, loadModel, train, argsModels, models,
                   selectedModels, history, setType>>
    /\ UNCHANGED <<tradingVars, dataVars, seriesVars>>

\* Lines 108-111: the next model of the second loop with empty output
\* lists, or the end of run (line 128) and of init (line 254).
PredictLoopHead ==
    /\ pc = "p_head"
    /\ IF mi <= Len(selectedModels)
       THEN /\ pc' = "p_predict" /\ setType' = "train"
            /\ predictions' = <<>> /\ actuals' = <<>> /\ datesList' = <<>>
       ELSE /\ pc' = "done" /\ setType' = setType
            /\ UNCHANGED seriesVars
    /\ UNCHANGED <<noReplace, saveModel, loadModel, train, argsModels, fs,
                   models, selectedModels, history, mi, log>>
    /\ UNCHANGED <<tradingVars, dataVars>>

\* Lines 114-115: res and actual of the split.
Res == Reverse(PredictOut(Model, dataset[setType]), normalization[setType])
Actual == Reverse(labels[setType], normalization[setType])

\* Lines 117-120, one split: the outputs, the labels and the dates in the
\* order of an argsort of the dates.
Predict ==
    /\ pc = "p_predict"
    /\ \E p \in ArgSort(dates[setType]) :
           /\ InRange(Res, p) /\ InRange(Actual, p)
           /\ predictions' = Append(predictions, Reindex(Res, p))
           /\ actuals' = Append(actuals, Reindex(Actual, p))
           /\ datesList' = Append(datesList, Reindex(dates[setType], p))
    /\ log' = Append(log, Call("predict", Model, setType))
    /\ IF setType = "train"
       THEN setType' = "test" /\ pc' = "p_predict"
       ELSE setType' = setType /\ pc' = "p_report"
    /\ UNCHANGED <<noReplace, saveModel, loadModel, train, argsModels, fs,
                   models, selectedModels, history, mi>>
    /\ UNCHANGED <<tradingVars, dataVars>>

\* Lines 118-119: an index of the argsort is out of the bounds of res
\* (line 118 raises, nothing is appended) or of actual (line 119 raises
\* after line 118 has appended res[p]): IndexError, which nothing catches.
PredictIndexError ==
    /\ pc = "p_predict"
    /\ \E p \in ArgSort(dates[setType]) :
           /\ ~(InRange(Res, p) /\ InRange(Actual, p))
           /\ predictions' = IF InRange(Res, p)
                              THEN Append(predictions, Reindex(Res, p))
                              ELSE predictions
    /\ log' = log \o <<Call("predict", Model, setType),
                       Call("raise", 0, "IndexError")>>
    /\ pc' = "raised"
    /\ UNCHANGED <<actuals, datesList>>
    /\ UNCHANGED <<noReplace, saveModel, loadModel, train, argsModels, fs,
                   models, selectedModels, history, mi, setType>>
    /\ UNCHANGED <<tradingVars, dataVars>>

\* Lines 122-127: drawAccuracyGraph with the history of the model, if any.
Report ==
    /\ pc = "p_report"
    /\ log' = Append(log, Call("report", Model,
                     IF Model \in history THEN "history" ELSE "None"))
    /\ mi' = mi + 1
    /\ pc' = "p_head"
    /\ UNCHANGED <<noReplace, saveModel, loadModel, train, argsModels, fs,
                   models, selectedModels, history, setType>>
    /\ UNCHANGED <<tradingVars, dataVars, seriesVars>>

\* The process is interrupted from outside, at any point before it ends.
Running == pc \notin {"idle", "done", "raised", "killed"}
Interrupt ==
    /\ Running
    /\ pc' = "killed"
    /\ UNCHANGED <<noReplace, saveModel, loadModel, train, argsModels, fs,
                   models, selectedModels, history, mi, setType, log>>
    /\ UNCHANGED <<tradingVars, dataVars, seriesVars>>

NextRun ==
    \/ InitNoReplace
    \/ InitCallRun
    \/ Partition
    \/ NoShuffle
    \/ SelectModels
    \/ TrainLoopHead
    \/ LoadStep
    \/ TrainSkip
    \/ TrainOk
    \/ TrainFail
    \/ SaveModel
    \/ OpenHistory
    \/ DumpHistory
    \/ PredictLoopHead
    \/ Predict
    \/ Report
    \/ Interrupt

SpecRun == InitRun /\ [][NextRun]_vars

\* The steps of a run that trains its models and saves nothing, with any
\* dataset file, --shuffle, --trim-batch and batch.
NextData ==
    \/ InitCallRun
    \/ Partition
    \/ PartitionKeyError
    \/ PartitionZeroDivision
    \/ Shuffle
    \/ ShuffleIndexError
    \/ NoShuffle
    \/ SelectModels
    \/ TrainLoopHead
    \/ LoadStep
    \/ TrainOk
    \/ TrainFail
    \/ PredictLoopHead
    \/ Predict
    \/ PredictIndexError
    \/ Report
    \/ Interrupt

SpecData == InitData /\ [][NextData]_vars

(***************************************************************************)
(* Properties of simulateTrading.                                          *)
(***************************************************************************)
\* x * c = y, for exact numbers x and y and an integer c.
EqTimes(x, c, y) == x.num * c * y.den = y.num * x.den

\* C1: at every step with curr = actual[i] and pred = prediction[i+1]: if
\* pred > curr the position toggles (not holding: the balance is divided by
\* curr, the last buy price becomes curr, holding; holding: the balance is
\* multiplied by curr, not holding) and the trade count grows by exactly 1;
\* if pred <= curr nothing but the step index changes.  The call with
\* actual = prediction = [5,10,5,10] and start balance 100 returns (100, 2).
\* A buy at curr = 0 has no quotient: it is the subject of C3.
C1_StepRule ==
    [][ /\ (tpc = "loop" /\ InLoop /\ Pred > Curr /\ ~crypto /\ Curr # 0) =>
            /\ EqTimes(balance', Curr, balance)
            /\ lastPriceBoughtCrypto' = Curr
            /\ crypto'
            /\ timesTraded' = timesTraded + 1
        /\ (tpc = "loop" /\ InLoop /\ Pred > Curr /\ crypto) =>
            /\ EqTimes(balance, Curr, balance')
            /\ lastPriceBoughtCrypto' = lastPriceBoughtCrypto
            /\ ~crypto'
            /\ timesTraded' = timesTraded + 1
        /\ (tpc = "loop" /\ InLoop /\ Pred <= Curr) =>
            UNCHANGED <<balance, crypto, lastPriceBoughtCrypto, timesTraded>>
        /\ ( /\ tpc' = "returned"
             /\ actual = <<5, 10, 5, 10>> /\ prediction = <<5, 10, 5, 10>>
             /\ startBalance = 100 ) =>
            balance' = Num(100) /\ timesTraded' = 2
      ]_vars

\* The call of the example has returned (100, 2): it bought at step 0, held
\* at step 1 and sold at step 2.
C1_Witness ==
    /\ tpc = "returned"
    /\ actual = <<5, 10, 5, 10>> /\ prediction = <<5, 10, 5, 10>>
    /\ startBalance = 100
    /\ balance = Num(100) /\ timesTraded = 2

\* C2: when the loop ends while holding, the returned balance is the
\* balance held times the price of the most recent buy (not the last market
\* price) and the machine ends not holding; when it ends not holding the
\* balance is returned as it is.  The liquidation is not counted as a trade.
\* The call with actual = prediction = [5,10] and start balance 100 returns
\* (100, 1).
C2_Liquidation ==
    [][ /\ (tpc = "liquidate" /\ crypto) =>
            /\ EqTimes(balance, lastPriceBoughtCrypto, balance')
            /\ tpc' = "returned"
        /\ (tpc = "liquidate" /\ ~crypto) => balance' = balance
        /\ tpc = "liquidate" => ~crypto' /\ timesTraded' = timesTraded
        /\ lastPriceBoughtCrypto' # lastPriceBoughtCrypto =>
            /\ tpc = "loop" /\ InLoop /\ ~crypto /\ crypto'
            /\ lastPriceBoughtCrypto' = Curr
        /\ ( /\ tpc' = "returned"
             /\ actual = <<5, 10>> /\ prediction = <<5, 10>>
             /\ startBalance = 100 ) =>
            balance' = Num(100) /\ timesTraded' = 1
      ]_vars

\* The call of the example has returned (100, 1): bought at 5, liquidated at
\* 5 while the last market price is 10.
C2_Witness ==
    /\ tpc = "returned"
    /\ actual = <<5, 10>> /\ prediction = <<5, 10>>
    /\ startBalance = 100
    /\ lastPriceBoughtCrypto = 5 /\ actual[Len(actual)] = 10
    /\ balance = Num(100) /\ timesTraded = 1

\* C3: a buy step (not holding, pred > curr) with curr = 0 or curr < 0 ends
\* the call with an error; the call never goes on with a balance computed at
\* that step.
C3_InvalidPriceFails ==
    [][ (tpc = "loop" /\ InLoop /\ ~crypto /\ Pred > Curr /\ Curr <= 0) =>
            tpc' = "raised"
      ]_vars

\* C4: for a start balance > 0, in every state of a call the balance is >= 0
\* and the trade count is >= 0.
C4_NonNegative ==
    tpc # "idle" => ~IsNegative(balance) /\ timesTraded >= 0

\* The number of steps of the loop: min(len(prediction) - 1, len(actual)),
\* and none for an empty prediction.
StepCount == IF Min(Len(prediction) - 1, Len(actual)) < 0
             THEN 0 ELSE Min(Len(prediction) - 1, Len(actual))

\* C16: the call evaluates the steps i = 0 .. min(len(prediction) - 1,
\* len(actual)) - 1 in increasing order and ends: step i reads actual[i] and
\* prediction[i+1], so prediction[0] and the indices outside a series are
\* never read; a call that returns has evaluated all these steps (a call
\* ended by an exception has evaluated the first ones), and with
\* len(prediction) <= 1 or an empty actual it returns (startBalance, 0).
C16_StepsEvaluated ==
    tpc # "idle" =>
        /\ 0 \notin predRead
        /\ predRead \subseteq 1..(Len(prediction) - 1)
        /\ actualRead \subseteq 0..(Len(actual) - 1)
        /\ i \in 0..StepCount
        /\ tpc = "loop" => predRead = 1..i /\ actualRead = 0..(i - 1)
        /\ tpc = "raised" =>
               i < StepCount /\ predRead = 1..(i + 1) /\ actualRead = 0..i
        /\ tpc \in {"liquidate", "returned"} =>
               /\ i = StepCount
               /\ predRead = 1..StepCount
               /\ 0..(StepCount - 1) \subseteq actualRead
        /\ (tpc = "returned" /\ (Len(prediction) <= 1 \/ actual = <<>>)) =>
               balance = Num(startBalance) /\ timesTraded = 0
        /\ (Len(prediction) <= 1 \/ actual = <<>>) => tpc # "raised"

\* A call with series of different lengths has returned after three steps:
\* it read prediction[1..3] and stopped at the end of the shorter series.
C16_Witness ==
    /\ tpc = "returned"
    /\ Len(prediction) = 4 /\ Len(actual) = 3
    /\ i = 3 /\ predRead = {1, 2, 3} /\ actualRead = {0, 1, 2}

\* C19: after every step of the loop the position is held exactly when the
\* trade count is odd, and the trade count is at most the number of steps
\* evaluated; so when the loop has ended, the terminal liquidation (done
\* exactly when the position is held) occurs exactly when the count is odd.
C19_ParityOfTrades ==
    tpc \in {"loop", "liquidate"} =>
        /\ crypto <=> timesTraded % 2 = 1
        /\ timesTraded <= i
        /\ timesTraded >= 0

\* The loop has ended after a buy, a sale and a buy: three trades, and the
\* position is held.
C19_Witness ==
    /\ tpc = "liquidate"
    /\ crypto /\ timesTraded = 3 /\ i = 3

(***************************************************************************)
(* Properties of init and run.                                             *)
(***************************************************************************)
Has(op, m, arg) == \E k \in DOMAIN log : log[k] = Call(op, m, arg)
HasBefore(k, op, m, arg) == \E j \in 1..(k - 1) : log[j] = Call(op, m, arg)
Selected == {selectedModels[k] : k \in DOMAIN selectedModels}

\* C5: a model's files (model file, history sidecar) are written only after
\* that model's training has returned: nothing is saved when training is
\* disabled or no save path is given, and a model whose training raised has
\* no file, whole or partial.
C5_SaveOnlyAfterTraining ==
    /\ \A k \in DOMAIN log :
           log[k].op = "save" => HasBefore(k, "train", log[k].m, "ok")
    /\ \A e \in DOMAIN fs : fs[e].by # 0 => Has("train", fs[e].by, "ok")
    /\ (~train \/ saveModel = None) =>
           /\ \A k \in DOMAIN log : log[k].op # "save"
           /\ \A e \in DOMAIN fs : fs[e].by = 0
    /\ \A m \in Selected :
           Has("train", m, "raised") =>
               /\ \A e \in DOMAIN fs : fs[e].by # m
               /\ \A e \in DOMAIN fs : ~Has("save", m, e)

\* The first model was trained and saved, the training of the second one
\* raised: the files are the first model's.
C5_Witness ==
    /\ pc = "raised"
    /\ Len(selectedModels) >= 2
    /\ Has("train", selectedModels[1], "ok")
    /\ Has("save", selectedModels[1], modelExtension)
    /\ Has("save", selectedModels[1], historyExtension)
    /\ Has("train", selectedModels[2], "raised")
    /\ fs[modelExtension] = Written(selectedModels[1], TRUE)
    /\ fs[historyExtension] = Written(selectedModels[1], TRUE)

\* C6: when the training of a selected model fails, every model after it in
\* the selection is still trained and evaluated (both predictions and the
\* report).
C6_FailureIsolated ==
    pc \in {"done", "raised"} =>
        \A k \in DOMAIN selectedModels :
            (\E j \in 1..(k - 1) : Has("train", selectedModels[j], "raised")) =>
                /\ Has("train", selectedModels[k], "ok")
                       \/ Has("train", selectedModels[k], "raised")
                /\ Has("predict", selectedModels[k], "train")
                /\ Has("predict", selectedModels[k], "test")
                /\ \E k2 \in DOMAIN log :
                       log[k2].op = "report" /\ log[k2].m = selectedModels[k]

\* C7: when the process is interrupted, each file of the save target is
\* absent or a whole artifact, never a partly written one.
C7_AtomicPersistence ==
    pc = "killed" => \A e \in DOMAIN fs : ~fs[e].exists \/ fs[e].whole

\* C8: with a load path, each model is loaded before it is trained and
\* before it predicts, with training enabled or not, and every selected
\* model has been loaded when the evaluation starts; without a load path no
\* model is loaded.
C8_LoadFirst ==
    /\ loadModel # None =>
           /\ \A k \in DOMAIN log :
                  log[k].op \in {"train", "predict"} =>
                      HasBefore(k, "load", log[k].m, "loadModel")
           /\ pc \in {"p_head", "p_predict", "p_report"} =>
                  \A m \in Selected : Has("load", m, "loadModel")
           /\ (pc = "done" /\ mi >= 1) =>
                  \A m \in Selected : Has("load", m, "loadModel")
    /\ loadModel = None => \A k \in DOMAIN log : log[k].op # "load"

\* A run with a load path and training enabled has ended: the first model
\* was loaded, then trained, and the last one was loaded too.
C8_Witness ==
    /\ pc = "done" /\ train /\ loadModel # None
    /\ Len(selectedModels) = 3
    /\ log[1] = Call("load", 1, "loadModel")
    /\ log[2] = Call("train", 1, "ok")
    /\ Has("load", 3, "loadModel")
    /\ Has("predict", 3, "test")

\* What a run does when it skips everything: no call, no file touched, and
\* it ends with status 0 unless it is interrupted before.
Skips ==
    /\ log = <<>>
    /\ selectedModels = <<>>
    /\ \A e \in DOMAIN fs : fs[e].by = 0
    /\ pc \in {"main", "done", "killed"}

\* C9 as stated: with --no-replace and a save path, the run makes no call
\* and ends successfully when any artifact of the save target (the model
\* file or the history sidecar) is already there.
C9_AnyArtifactSkips ==
    (noReplace /\ saveModel # None /\ \E e \in DOMAIN fs : fs[e] = Prior) =>
        Skips

\* C9, amended: with --no-replace and a save path, the run makes no call
\* and ends successfully when the model file <saveModel>.h5 is already
\* there.
C9_ModelFileSkips ==
    (noReplace /\ saveModel # None /\ fs[modelExtension] = Prior) => Skips

\* The run has ended at once: the model file was there, the sidecar was not.
C9_Witness ==
    /\ noReplace /\ saveModel # None
    /\ fs[modelExtension] = Prior /\ fs[historyExtension] = Absent
    /\ pc = "done" /\ log = <<>>

\* Two names are equal but for the case of their letters.
SameLetter(x, y) ==
    x = y \/ \E n \in DOMAIN UpperCase : {x, y} = {UpperCase[n], LowerCase[n]}
EqIgnoreCase(a, b) ==
    Len(a) = Len(b) /\ \A k \in DOMAIN a : SameLetter(a[k], b[k])

\* The names asked for on the command line, or None.
Requested == IF Truthy(argsModels) THEN Some(Split(argsModels[1])) ELSE None

\* C10: with a request, the selection is the models of the registry whose
\* name equals a requested name but for case, in the order of the registry
\* whatever the order of the request ("LSTM,conv2d" selects Conv2D, LSTM);
\* names of no model are left out; without a request it is the registry.
C10_Selection ==
    mi >= 1 =>
        /\ Requested = None => selectedModels = globalModels
        /\ Requested # None =>
               /\ \A j, k \in DOMAIN selectedModels :
                      j < k => selectedModels[j] < selectedModels[k]
               /\ Selected =
                      {m \in 1..Len(globalModels) :
                           \E n \in DOMAIN Requested[1] :
                               EqIgnoreCase(Name(m), Requested[1][n])}
        /\ argsModels = Some(ReqLstmConv2d) => selectedModels = <<1, 3>>

\* The request "LSTM,conv2d" has selected Conv2D and LSTM, in this order.
C10_Witness ==
    /\ mi >= 1
    /\ argsModels = Some(ReqLstmConv2d)
    /\ selectedModels = <<1, 3>>
    /\ Name(selectedModels[1]) = <<"C", "o", "n", "v", "2", "D">>
    /\ Name(selectedModels[2]) = <<"L", "S", "T", "M">>

\* C20: when a run with training enabled, a save path and two or more
\* selected models has ended, every model has saved its model file and its
\* sidecar to the one pair of paths of the save target, and what is left is
\* the last selected model's, in registry order: the model file and the
\* sidecar both are that model's, and nothing of an earlier model remains.
C20_LastModelSurvives ==
    (pc = "done" /\ train /\ saveModel # None /\ Len(selectedModels) >= 2) =>
        LET last == selectedModels[Len(selectedModels)] IN
        /\ \A m \in Selected : m <= last
        /\ \A m \in Selected :
               Has("save", m, modelExtension) /\ Has("save", m, historyExtension)
        /\ fs[modelExtension] = Written(last, TRUE)
        /\ fs[historyExtension] = Written(last, TRUE)
        /\ \A e \in DOMAIN fs : fs[e].by \notin Selected \ {last}

\* All three models were trained and saved; the files are LSTM's.
C20_Witness ==
    /\ pc = "done" /\ train /\ saveModel # None
    /\ selectedModels = <<1, 2, 3>>
    /\ Has("save", 1, modelExtension) /\ Has("save", 2, historyExtension)
    /\ fs[modelExtension] = Written(3, TRUE)
    /\ fs[historyExtension] = Written(3, TRUE)

(***************************************************************************)
(* Properties of the dataset part of run.                                  *)
(***************************************************************************)
\* The record of the file a kind of split comes from.
RawOf(kind) == rawDataset[CHOOSE k \in 1..Len(Kinds) : Kinds[k] = kind]

\* The three arrays of a record of the file have one length.
RawEqualLengths(raw) ==
    Len(raw.dataset) = Len(raw.labels) /\ Len(raw.labels) = Len(raw.dates)

\* C11: in every state of a run, each split that is partitioned has as many
\* features as labels as dates.
C11_EqualLengths ==
    \A kind \in DOMAIN dataset :
        /\ Len(dataset[kind]) = Len(labels[kind])
        /\ Len(labels[kind]) = Len(dates[kind])

\* C12: with trimming and batch size B, each partitioned split of own
\* length L has length L - (L mod B) and is the first L - (L mod B)
\* elements of the loaded arrays, in order (for the train split: until it
\* is shuffled, which keeps the length); trimming the result again with B
\* changes nothing.
C12_Trim ==
    \A kind \in DOMAIN dataset :
        (trim /\ RawEqualLengths(RawOf(kind))) =>
            LET raw == RawOf(kind)
                L == Len(raw.dataset)
                B == modelArgs.batch
                n == Len(dataset[kind])
            IN  /\ B > 0
                /\ n = L - (L % B)
                /\ n % B = 0 /\ n <= L /\ L - n < B
                /\ Len(labels[kind]) = n /\ Len(dates[kind]) = n
                /\ (kind # "train" \/ permutation = None) =>
                       /\ dataset[kind] = SubSeq(raw.dataset, 1, n)
                       /\ labels[kind] = SubSeq(raw.labels, 1, n)
                       /\ dates[kind] = SubSeq(raw.dates, 1, n)
                /\ TargetLen(n, B) = n
                /\ Take(dataset[kind], TargetLen(n, B)) = dataset[kind]
                /\ Take(labels[kind], TargetLen(n, B)) = labels[kind]
                /\ Take(dates[kind], TargetLen(n, B)) = dates[kind]

\* The three splits are trimmed with batch size 2: a warm split of 1 sample
\* to none, a test split of 3 samples to its first 2, the train split of 2
\* samples is kept.
C12_Witness ==
    /\ trim /\ modelArgs = [batch |-> 2]
    /\ pc = "shuffle"
    /\ Len(rawDataset[1].dataset) = 1 /\ dataset["warm"] = <<>>
    /\ Len(rawDataset[2].dataset) = 2 /\ dataset["train"] = <<1, 2>>
    /\ Len(rawDataset[3].dataset) = 3
    /\ dataset["test"] = <<1, 2>> /\ labels["test"] = <<11, 12>>
    /\ Len(dates["test"]) = 2

\* The (feature, label, date) triple at index k of the train split.
TrainTriple(k) == <<dataset["train"][k], labels["train"][k], dates["train"][k]>>
TrainEqualLengths ==
    /\ Len(dataset["train"]) = Len(labels["train"])
    /\ Len(labels["train"]) = Len(dates["train"])

\* C13: a shuffle of a train split whose features, labels and dates have
\* one length N draws one permutation of the N indices and applies it to
\* all three: the triple at k afterwards is the triple at the permuted
\* index before, so each triple is there as often as before.
C13_OnePermutation ==
    [][(pc = "shuffle" /\ pc' = "select" /\ shuffle /\ TrainEqualLengths) =>
           /\ permutation' # None
           /\ LET p == permutation'[1]
                  N == Len(labels["train"])
              IN  /\ DOMAIN p = 1..N
                  /\ {p[k] : k \in 1..N} = 1..N
                  /\ Len(dataset'["train"]) = N
                  /\ Len(labels'["train"]) = N
                  /\ Len(dates'["train"]) = N
                  /\ \A k \in 1..N :
                         /\ dataset'["train"][k] = dataset["train"][p[k]]
                         /\ labels'["train"][k] = labels["train"][p[k]]
                         /\ dates'["train"][k] = dates["train"][p[k]]
                  /\ \A k \in 1..N :
                         Cardinality({j \in 1..N : TrainTriple(j)' = TrainTriple(k)})
                         = Cardinality({j \in 1..N : TrainTriple(j) = TrainTriple(k)})
      ]_vars

\* A train split of three samples with the dates 1, 1, 2 was shuffled with
\* the permutation that puts the last sample first.
C13_Witness ==
    /\ pc = "select" /\ shuffle
    /\ permutation = Some(<<3, 1, 2>>)
    /\ rawDataset[2].dates = <<1, 1, 2>>
    /\ dataset["train"] = <<3, 1, 2>>
    /\ labels["train"] = <<13, 11, 12>>
    /\ dates["train"] = <<2, 1, 1>>

\* C14: when the features, labels and dates of the train split differ in
\* length, the shuffle raises and the run ends there: no model is selected
\* or trained.
C14_MismatchAborts ==
    [][(pc = "shuffle" /\ shuffle /\ ~TrainEqualLengths) =>
           pc' \in {"raised", "killed"}]_vars

\* The index array that sorts d by ascending value and keeps the elements
\* of equal value in their order.
StableArgSort(d) ==
    CHOOSE p \in ArgSort(d) :
        \A a, b \in 1..Len(d) : (a < b /\ d[p[a]] = d[p[b]]) => p[a] < p[b]
NonDecreasing(d) == \A a, b \in 1..Len(d) : a < b => d[a] <= d[b]

\* C15: for the model of the prediction loop and each split done, the
\* output lists hold the denormalized predictions, the denormalized labels
\* and the dates in the order of the stable sort of the dates: the dates
\* do not decrease, each value stays with its sample's date, samples of
\* equal date keep their order, and a split in date order is left as it is.
C15_StableSorted ==
    pc \in {"p_predict", "p_report"} =>
        \A j \in 1..Len(datesList) :
            LET st == <<"train", "test">>[j]
                d == dates[st]
                res == Reverse(PredictOut(Model, dataset[st]),
                               normalization[st])
                act == Reverse(labels[st], normalization[st])
                sp == StableArgSort(d)
            IN  /\ NonDecreasing(datesList[j])
                /\ datesList[j] = Reindex(d, sp)
                /\ predictions[j] = Reindex(res, sp)
                /\ actuals[j] = Reindex(act, sp)
                /\ NonDecreasing(d) =>
                       /\ datesList[j] = d
                       /\ predictions[j] = Take(res, Len(d))
                       /\ actuals[j] = Take(act, Len(d))

\* The splits as the partition of lines 51-65 leaves them.
Partitioned(kind, a) ==
    LET raw == RawOf(kind)
        L == Len(raw.dataset)
    IN  Take(a, IF trim THEN L - (L % modelArgs.batch) ELSE L)

\* C17: the warm and the test split are, in every state, the loaded (and
\* trimmed) arrays in their order, and so is the train split when --shuffle
\* is not given; a permutation is drawn only with --shuffle.
C17_ShuffleOnlyTrainOnRequest ==
    /\ \A kind \in DOMAIN dataset :
           (kind \in {"warm", "test"} \/ ~shuffle) =>
               /\ dataset[kind] = Partitioned(kind, RawOf(kind).dataset)
               /\ labels[kind] = Partitioned(kind, RawOf(kind).labels)
               /\ dates[kind] = Partitioned(kind, RawOf(kind).dates)
    /\ ~shuffle => permutation = None
    /\ (shuffle /\ pc \notin {"main", "run", "shuffle", "raised", "killed"}) =>
           permutation # None

\* With --shuffle a train split of three samples was reversed; warm and
\* test are as they were loaded.
C17_Witness ==
    /\ shuffle /\ ~trim /\ pc = "select"
    /\ permutation = Some(<<3, 2, 1>>)
    /\ dataset["train"] = <<3, 2, 1>>
    /\ dataset["warm"] = rawDataset[1].dataset /\ dataset["warm"] = <<1, 2>>
    /\ dates["test"] = rawDataset[3].dates /\ dataset["test"] = <<1, 2>>

\* C18: with --trim-batch and no batch in --args, nothing is raised and
\* every partitioned split has its loaded length.
C18_TrimWithoutBatch ==
    (trim /\ "batch" \notin DOMAIN modelArgs) =>
        /\ \A k \in 1..Len(log) : log[k].op # "raise"
        /\ pc \notin {"main", "run"} => DOMAIN dataset = {"warm", "train", "test"}
        /\ \A kind \in DOMAIN dataset :
               Len(dataset[kind]) = Len(RawOf(kind).dataset)

====
